---- MODULE Spec2Model ----
(***************************************************************************)
(* Bit addressing by shift and mask (src/src/bitshifts.rs, src/src/hashes.rs)*)
(*                                                                         *)
(* A usize of BITS bits is a little-endian sequence of BITS/8 bytes, a     *)
(* function 0..n-1 -> 0..255, so that 64- and 128-bit words are exact and  *)
(* shifts, masks, wrapping additions, divisions and remainders are computed*)
(* digit by digit, each by its own algorithm.                              *)
(***************************************************************************)
EXTENDS Integers, Sequences, FiniteSets

VARIABLES
    BITS,                    \* usize::BITS of the compilation target
    pc,                      \* "compile" | "ready" | "panic"
    bitshifts_needed,        \* bitshifts.rs BITSHIFTS_NEEDED, None until evaluated
    remainder_mask,          \* bitshifts.rs REMAINDER_MASK, None until evaluated
    hashes_bitshifts_needed, \* hashes.rs BITSHIFTS_NEEDED, None until evaluated
    bit_index,               \* the bit index a caller resolves, None between calls
    word_index,              \* its word index
    bit_offset,              \* its offset inside the word
    tests,                   \* the locals of each #[test] function of bitshifts.rs
    callers                  \* the locals of each concurrent caller

consts == <<bitshifts_needed, remainder_mask, hashes_bitshifts_needed>>
address == <<bit_index, word_index, bit_offset>>
vars == <<BITS, pc, consts, address, tests, callers>>

-----------------------------------------------------------------------------
(* Bounds of the model *)

\* bit indices 0 .. WordsCovered * BITS - 1 are resolved
WordsCovered == 10
\* the top HighBits bits of a resolved bit index take every value
HighBits == 2
\* the length of a test's numbers vector (10000 in the source)
NumbersLen == 2
\* the exclusive end of a test's loops (10^9 to 10^11 in the source, even as
\* here, so that the last iteration has an odd _i and leaves its term in a);
\* with the source's literals replaced by these two, the tests run on every
\* supported width
LoopEnd == 10
\* the number of concurrent callers
NumCallers == 2

-----------------------------------------------------------------------------
(* Option values *)

None == <<>>
Some(v) == <<v>>
Get(o) == o[1]

-----------------------------------------------------------------------------
(* usize arithmetic *)

Pow2(n) == 2 ^ n

NBytes(bits) == bits \div 8

Bytes(bits) == 0 .. NBytes(bits) - 1

\* the usize of value n, n < 2^24
FromNat(n, bits) ==
    [i \in Bytes(bits) |-> IF i < 3 THEN (n \div (256 ^ i)) % 256 ELSE 0]

\* usize::MAX
USIZE_MAX(bits) == [i \in Bytes(bits) |-> 255]

ByteAt(x, j, bits) == IF j < 0 \/ j >= NBytes(bits) THEN 0 ELSE x[j]

\* x << s, the bits shifted past the top are lost; the caller checks s < bits
Shl(x, s, bits) ==
    LET q == s \div 8
        r == s % 8
    IN  [i \in Bytes(bits) |->
            ((ByteAt(x, i - q, bits) * Pow2(r)) % 256)
            + (ByteAt(x, i - q - 1, bits) \div Pow2(8 - r))]

\* x >> s, logical; the caller checks s < bits
Shr(x, s, bits) ==
    LET q == s \div 8
        r == s % 8
    IN  [i \in Bytes(bits) |->
            (ByteAt(x, i + q, bits) \div Pow2(r))
            + ((ByteAt(x, i + q + 1, bits) * Pow2(8 - r)) % 256)]

RECURSIVE AndByte(_, _)
AndByte(a, b) ==
    IF a = 0 \/ b = 0 THEN 0
    ELSE (a % 2) * (b % 2) + 2 * AndByte(a \div 2, b \div 2)

\* x & y
And(x, y, bits) == [i \in Bytes(bits) |-> AndByte(x[i], y[i])]

\* the remainder carried into byte i of a long division of x by d,
\* most significant byte first
RECURSIVE RemInto(_, _, _, _)
RemInto(x, d, i, bits) ==
    IF i >= NBytes(bits) - 1 THEN 0
    ELSE (RemInto(x, d, i + 1, bits) * 256 + x[i + 1]) % d

\* x / d, 0 < d <= 128
Div(x, d, bits) ==
    [i \in Bytes(bits) |-> (RemInto(x, d, i, bits) * 256 + x[i]) \div d]

\* x % d, 0 < d <= 128
Mod(x, d, bits) == FromNat(RemInto(x, d, -1, bits), bits)

\* the carry into byte i of x + y
RECURSIVE CarryInto(_, _, _)
CarryInto(x, y, i) ==
    IF i <= 0 THEN 0
    ELSE (x[i - 1] + y[i - 1] + CarryInto(x, y, i - 1)) \div 256

\* x.wrapping_add(y)
wrapping_add(x, y, bits) ==
    [i \in Bytes(bits) |-> (x[i] + y[i] + CarryInto(x, y, i)) % 256]

\* whether x + y overflows usize
AddOverflows(x, y, bits) == CarryInto(x, y, NBytes(bits)) = 1

-----------------------------------------------------------------------------
(* The constants of the crate *)

\* the widths the match arms name
SupportedBits == {8, 16, 32, 64, 128}

\* widths no arm names
UnsupportedBits == {17, 24, 256}

\* Faulty variant: the arms of 64 and 32 swapped
BITSHIFTS_NEEDED_swapped(bits) ==
    CASE bits = 128 -> Some(7)
      [] bits = 64 -> Some(5)
      [] bits = 32 -> Some(6)
      [] bits = 16 -> Some(4)
      [] bits = 8 -> Some(3)
      [] OTHER -> None

\* Faulty variant: the values of the table of hashes.rs
BITSHIFTS_NEEDED_as_hashes(bits) ==
    CASE bits = 128 -> Some(6)
      [] bits = 64 -> Some(5)
      [] bits = 32 -> Some(4)
      [] bits = 16 -> Some(3)
      [] bits = 8 -> Some(4)
      [] OTHER -> None

\* Faulty variant: a default in the `_` arm instead of the panic
BITSHIFTS_NEEDED_default(bits) ==
    CASE bits = 128 -> Some(7)
      [] bits = 64 -> Some(6)
      [] bits = 32 -> Some(5)
      [] bits = 16 -> Some(4)
      [] OTHER -> Some(3)

\* Faulty variant: the shift that divides by 8, the bits of a byte, on every target
BITSHIFTS_NEEDED_byte(bits) ==
    IF bits \in {8, 16, 32, 64, 128} THEN Some(3) ELSE None

\* bitshifts.rs: const BITSHIFTS_NEEDED; None is the panic of the `_` arm
BITSHIFTS_NEEDED(bits) ==
    CASE bits = 128 -> Some(7)
      [] bits = 64 -> Some(6)
      [] bits = 32 -> Some(5)
      [] bits = 16 -> Some(4)
      [] bits = 8 -> Some(3)
      [] OTHER -> None

\* hashes.rs: const BITSHIFTS_NEEDED; None is the panic of the `_` arm
hashes_BITSHIFTS_NEEDED(bits) ==
    CASE bits = 128 -> Some(6)
      [] bits = 64 -> Some(5)
      [] bits = 32 -> Some(4)
      [] bits = 16 -> Some(3)
      [] bits = 8 -> Some(4)
      [] OTHER -> None

\* Faulty variant: one bit too many shifted out
MaskShiftAmount_plus1(bits, needed) == bits - needed + 1

\* usize::BITS - BITSHIFTS_NEEDED as u32, the amount of both shifts
MaskShiftAmount(bits, needed) == bits - needed

\* a u32 subtraction that underflows, or a shift by the width or more
ShiftOverflows(bits, amount) == amount < 0 \/ amount >= bits

\* Faulty variant: the shift back to the right forgotten
MaskOfShifts_left_only(bits, amount) == Shl(USIZE_MAX(bits), amount, bits)

\* (usize::MAX << amount) >> amount
MaskOfShifts(bits, amount) == Shr(Shl(USIZE_MAX(bits), amount, bits), amount, bits)

\* bitshifts.rs: const REMAINDER_MASK
REMAINDER_MASK(bits, needed) == MaskOfShifts(bits, MaskShiftAmount(bits, needed))

\* whether the evaluation of the crate's constants aborts the build
ConstEvalPanics(bits) ==
    \/ BITSHIFTS_NEEDED(bits) = None
    \/ hashes_BITSHIFTS_NEEDED(bits) = None
    \/ ShiftOverflows(bits, MaskShiftAmount(bits, Get(BITSHIFTS_NEEDED(bits))))

-----------------------------------------------------------------------------
(* Address resolution *)

\* the pair (word index, bit offset) of bit index b
resolve(b, shift, mask, bits) ==
    [word_index |-> Shr(b, shift, bits), bit_offset |-> And(b, mask, bits)]

\* the bit indices resolved: every low value, under every pattern of top bits
BitIndices(bits) ==
    LET lows == 0 .. WordsCovered * bits - 1
        \* the pattern h in the top HighBits bits of a usize
        high(h) == [i \in Bytes(bits) |->
                      IF i = NBytes(bits) - 1 THEN h * Pow2(8 - HighBits) ELSE 0]
    IN  { [i \in Bytes(bits) |->
              LET l == FromNat(lo, bits)[i]
                  t == high(h)[i]
              IN  l + t - AndByte(l, t)] :
          lo \in lows, h \in 0 .. Pow2(HighBits) - 1 }

-----------------------------------------------------------------------------
(* The tests of bitshifts.rs *)

Zero(bits) == FromNat(0, bits)

\* the values random::<usize>() returns in the model: usize::MAX, 0xA5 in
\* every byte, and two words whose bytes differ from one another
Samples(bits) ==
    { USIZE_MAX(bits),
      [i \in Bytes(bits) |-> 165],
      [i \in Bytes(bits) |-> (37 * i + 201) % 256],
      [i \in Bytes(bits) |-> (91 * i + 58) % 256] }

BenchNames ==
    {"test_bitmask_vs_modulo_fixed", "test_bitmask_vs_modulo",
     "test_bitshifts_vs_divisions"}

TestNames == BenchNames \cup {"test_sample"}

\* the indices _i % 7 of the tables
TableIndex == 0 .. 6

\* test_bitmask_vs_modulo: modulos
modulos == [k \in TableIndex |-> <<1, 2, 4, 8, 16, 32, 64>>[k + 1]]

\* Faulty variant: entry 0 computed by the formula of the other entries
FormulaEntries_all == TableIndex

\* test_bitmask_vs_modulo: the entries of bitmasks computed by shifts
FormulaEntries == TableIndex \ {0}

\* Faulty variant: the literal 0 not pushed, every mask one place early
bitmasks_no_zero(bits) ==
    [k \in TableIndex |-> MaskOfShifts(bits, MaskShiftAmount(bits, k + 1))]

\* test_bitmask_vs_modulo: bitmasks; entry 0 is the literal 0
bitmasks(bits) ==
    [k \in TableIndex |->
        IF k \in FormulaEntries
        THEN MaskOfShifts(bits, MaskShiftAmount(bits, k))
        ELSE Zero(bits)]

\* whether a shift of the bitmasks table overflows
BitmasksPanics(bits) ==
    \E k \in FormulaEntries : ShiftOverflows(bits, MaskShiftAmount(bits, k))

\* test_bitshifts_vs_divisions: divisors
divisors == [k \in TableIndex |-> <<1, 2, 4, 8, 16, 32, 64>>[k + 1]]

\* test_bitshifts_vs_divisions: bitshifters
bitshifters == [k \in TableIndex |-> <<0, 1, 2, 3, 4, 5, 6>>[k + 1]]

\* what the first loop of test t adds for the number x at table index k
FirstTerm(t, x, k, bits, mask) ==
    CASE t = "test_bitmask_vs_modulo_fixed" -> And(x, mask, bits)
      [] t = "test_bitmask_vs_modulo" -> And(x, bitmasks(bits)[k], bits)
      [] t = "test_bitshifts_vs_divisions" -> Shr(x, bitshifters[k], bits)

\* what the second loop of test t adds for the number x at table index k
SecondTerm(t, x, k, bits) ==
    CASE t = "test_bitmask_vs_modulo_fixed" -> Mod(x, bits, bits)
      [] t = "test_bitmask_vs_modulo" -> Mod(x, modulos[k], bits)
      [] t = "test_bitshifts_vs_divisions" -> Div(x, divisors[k], bits)

\* one iteration of a loop: a = a.wrapping_add(term); if _i % 2 == 0 { a = 0 }
LoopBody(a, term, i, bits) ==
    IF i % 2 = 0 THEN Zero(bits) ELSE wrapping_add(a, term, bits)

\* a test that is not running
IdleTest ==
    [pc |-> "idle", numbers |-> <<>>, i |-> 0, a |-> <<>>, a_mid |-> <<>>,
     out |-> <<>>]

IdleCaller ==
    [pc |-> "idle", bit_index |-> None, word_index |-> None, bit_offset |-> None]

Callers == 1 .. NumCallers

-----------------------------------------------------------------------------
(* Actions *)

Init ==
    /\ BITS \in SupportedBits \cup UnsupportedBits
    /\ pc = "compile"
    /\ bitshifts_needed = None
    /\ remainder_mask = None
    /\ hashes_bitshifts_needed = None
    /\ bit_index = None
    /\ word_index = None
    /\ bit_offset = None
    /\ tests = [t \in TestNames |-> IdleTest]
    /\ callers = [c \in Callers |-> IdleCaller]

\* the compiler evaluates the constants of both files; a panic aborts the build
ConstEval ==
    /\ pc = "compile"
    /\ IF ConstEvalPanics(BITS)
       THEN /\ pc' = "panic"
            /\ UNCHANGED consts
       ELSE /\ pc' = "ready"
            /\ bitshifts_needed' = BITSHIFTS_NEEDED(BITS)
            /\ remainder_mask' = Some(REMAINDER_MASK(BITS, Get(BITSHIFTS_NEEDED(BITS))))
            /\ hashes_bitshifts_needed' = hashes_BITSHIFTS_NEEDED(BITS)
    /\ UNCHANGED <<BITS, address, tests, callers>>

\* one bit access of a caller
Resolve ==
    /\ pc = "ready"
    /\ bit_index = None
    /\ \E b \in BitIndices(BITS) :
         LET r == resolve(b, Get(bitshifts_needed), Get(remainder_mask), BITS)
         IN  /\ bit_index' = Some(b)
             /\ word_index' = Some(r.word_index)
             /\ bit_offset' = Some(r.bit_offset)
    /\ UNCHANGED <<BITS, pc, consts, tests, callers>>

\* the caller is done with the address, which it owns
Release ==
    /\ pc = "ready"
    /\ bit_index # None
    /\ bit_index' = None
    /\ word_index' = None
    /\ bit_offset' = None
    /\ UNCHANGED <<BITS, pc, consts, tests, callers>>

\* test_sample, lines 26 to 28: 256 >> 7, 256 / 128 and the shift amount
test_sample_amount ==
    /\ pc = "ready"
    /\ tests["test_sample"].pc = "idle"
    /\ tests' = [tests EXCEPT !["test_sample"] =
                   [@ EXCEPT !.pc = "amount",
                             !.out = <<256 \div Pow2(7), 256 \div 128,
                                       MaskShiftAmount(BITS, Get(bitshifts_needed))>>]]
    /\ UNCHANGED <<BITS, pc, consts, address, callers>>

\* Faulty variant: the mask is taken out of a shared cell to be printed
test_sample_mask_taken ==
    /\ pc = "ready"
    /\ tests["test_sample"].pc = "amount"
    /\ remainder_mask # None
    /\ tests' = [tests EXCEPT !["test_sample"] =
                   [@ EXCEPT !.pc = "done",
                             !.out = Append(@, Get(remainder_mask))]]
    /\ remainder_mask' = Some(Zero(BITS))
    /\ UNCHANGED <<BITS, pc, bitshifts_needed, hashes_bitshifts_needed, address,
                   callers>>

\* test_sample, line 29: REMAINDER_MASK
test_sample_mask ==
    /\ pc = "ready"
    /\ tests["test_sample"].pc = "amount"
    /\ tests' = [tests EXCEPT !["test_sample"] =
                   [@ EXCEPT !.pc = "done",
                             !.out = Append(@, Get(remainder_mask))]]
    /\ UNCHANGED <<BITS, pc, consts, address, callers>>

\* a benchmark fills numbers and its tables
BenchStart(t) ==
    /\ pc = "ready"
    /\ tests[t].pc = "idle"
    /\ IF t = "test_bitmask_vs_modulo" /\ BitmasksPanics(BITS)
       THEN tests' = [tests EXCEPT ![t] = [@ EXCEPT !.pc = "panicked"]]
       ELSE \E ns \in [0 .. NumbersLen - 1 -> Samples(BITS)] :
              tests' = [tests EXCEPT ![t] =
                          [pc |-> "loop1", numbers |-> ns, i |-> 1,
                           a |-> Zero(BITS), a_mid |-> <<>>, out |-> <<>>]]
    /\ UNCHANGED <<BITS, pc, consts, address, callers>>

\* one iteration of the first loop (masks, shifts)
BenchFirstLoop(t) ==
    /\ pc = "ready"
    /\ tests[t].pc = "loop1"
    /\ tests[t].i < LoopEnd
    /\ LET T == tests[t]
           x == T.numbers[T.i % NumbersLen]
           term == FirstTerm(t, x, T.i % 7, BITS, Get(remainder_mask))
       IN  tests' = [tests EXCEPT ![t] =
                       [@ EXCEPT !.a = LoopBody(T.a, term, T.i, BITS),
                                 !.i = T.i + 1]]
    /\ UNCHANGED <<BITS, pc, consts, address, callers>>

\* the first loop is over: its time is taken, a is kept
BenchFirstElapsed(t) ==
    /\ pc = "ready"
    /\ tests[t].pc = "loop1"
    /\ tests[t].i = LoopEnd
    /\ tests' = [tests EXCEPT ![t] =
                   [@ EXCEPT !.pc = "loop2", !.i = 1, !.a_mid = tests[t].a]]
    /\ UNCHANGED <<BITS, pc, consts, address, callers>>

\* one iteration of the second loop (modulos, divisions)
BenchSecondLoop(t) ==
    /\ pc = "ready"
    /\ tests[t].pc = "loop2"
    /\ tests[t].i < LoopEnd
    /\ LET T == tests[t]
           x == T.numbers[T.i % NumbersLen]
           term == SecondTerm(t, x, T.i % 7, BITS)
       IN  tests' = [tests EXCEPT ![t] =
                       [@ EXCEPT !.a = LoopBody(T.a, term, T.i, BITS),
                                 !.i = T.i + 1]]
    /\ UNCHANGED <<BITS, pc, consts, address, callers>>

\* the second loop is over: a is printed
BenchPrint(t) ==
    /\ pc = "ready"
    /\ tests[t].pc = "loop2"
    /\ tests[t].i = LoopEnd
    /\ tests' = [tests EXCEPT ![t] = [@ EXCEPT !.pc = "done", !.out = <<tests[t].a>>]]
    /\ UNCHANGED <<BITS, pc, consts, address, callers>>

\* a test returns and its locals are dropped
TestReturn(t) ==
    /\ pc = "ready"
    /\ tests[t].pc = "done"
    /\ tests' = [tests EXCEPT ![t] = IdleTest]
    /\ UNCHANGED <<BITS, pc, consts, address, callers>>

\* a concurrent caller resolves the word index of a bit index
CallerShift(c) ==
    /\ pc = "ready"
    /\ callers[c].pc = "idle"
    /\ \E b \in Samples(BITS) :
         callers' = [callers EXCEPT ![c] =
            [pc |-> "shifted", bit_index |-> Some(b),
             word_index |-> Some(resolve(b, Get(bitshifts_needed),
                                         Get(remainder_mask), BITS).word_index),
             bit_offset |-> None]]
    /\ UNCHANGED <<BITS, pc, consts, address, tests>>

\* and then the bit offset
CallerMask(c) ==
    /\ pc = "ready"
    /\ callers[c].pc = "shifted"
    /\ callers' = [callers EXCEPT ![c] =
          [@ EXCEPT !.pc = "done",
                    !.bit_offset =
                        Some(resolve(Get(callers[c].bit_index), Get(bitshifts_needed),
                                     Get(remainder_mask), BITS).bit_offset)]]
    /\ UNCHANGED <<BITS, pc, consts, address, tests>>

CallerReturn(c) ==
    /\ pc = "ready"
    /\ callers[c].pc = "done"
    /\ callers' = [callers EXCEPT ![c] = IdleCaller]
    /\ UNCHANGED <<BITS, pc, consts, address, tests>>

\* nothing else runs: the tests run one at a time (--test-threads=1)
Quiet ==
    /\ bit_index = None
    /\ \A t \in TestNames : tests[t].pc = "idle"

\* what may run alone
Begin ==
    \/ Resolve
    \/ test_sample_amount
    \/ \E t \in BenchNames : BenchStart(t)

\* what continues a running test or call
Continue ==
    \/ Release
    \/ test_sample_mask
    \/ \E t \in BenchNames : BenchFirstLoop(t)
    \/ \E t \in BenchNames : BenchFirstElapsed(t)
    \/ \E t \in BenchNames : BenchSecondLoop(t)
    \/ \E t \in BenchNames : BenchPrint(t)
    \/ \E t \in TestNames : TestReturn(t)

Next ==
    \/ ConstEval
    \/ Quiet /\ Begin
    \/ Continue

\* the build, then calls and tests one after the other
Spec == Init /\ [][Next]_vars

\* the threads of a parallel run: test_sample and the callers
NextConc ==
    \/ ConstEval
    \/ test_sample_amount
    \/ test_sample_mask
    \/ TestReturn("test_sample")
    \/ \E c \in Callers : CallerShift(c)
    \/ \E c \in Callers : CallerMask(c)
    \/ \E c \in Callers : CallerReturn(c)

\* the build, then test_sample and the callers on concurrent threads
SpecConc == Init /\ [][NextConc]_vars

-----------------------------------------------------------------------------
(* Helpers of the properties *)

\* whether the value of x is below 2^24
FitsNat(x, bits) == \A i \in Bytes(bits) : i >= 3 => x[i] = 0

\* the value of x, when it fits
ToNat(x, bits) ==
    LET byte(i) == IF i < NBytes(bits) THEN x[i] ELSE 0
    IN  byte(0) + 256 * byte(1) + 65536 * byte(2)

\* bit j of x
BitOf(x, j) == (x[j \div 8] \div Pow2(j % 8)) % 2

One(bits) == FromNat(1, bits)

\* the numbers of the running test t
NumbersOf(t) == {tests[t].numbers[j] : j \in DOMAIN tests[t].numbers}

-----------------------------------------------------------------------------
(* Properties *)

\* C1: on every supported target, the word index b >> BITSHIFTS_NEEDED of a
\* resolved bit index b is the quotient b / BITS and its bit offset
\* b & REMAINDER_MASK is the remainder b % BITS; so is every term
\* x & REMAINDER_MASK of test_bitmask_vs_modulo_fixed the term x % BITS.
C1_ShiftMaskIsDivMod ==
    /\ bit_index # None =>
         /\ Get(word_index) = Div(Get(bit_index), BITS, BITS)
         /\ Get(bit_offset) = Mod(Get(bit_index), BITS, BITS)
    /\ \A x \in NumbersOf("test_bitmask_vs_modulo_fixed") :
         FirstTerm("test_bitmask_vs_modulo_fixed", x, 0, BITS, Get(remainder_mask))
           = SecondTerm("test_bitmask_vs_modulo_fixed", x, 0, BITS)

\* a 128-bit index with its two top bits set and a non-zero offset is resolved
C1_Witness ==
    /\ BITS = 128
    /\ bit_index # None
    /\ Get(bit_index)[15] >= 192
    /\ Get(word_index)[15] > 0
    /\ Get(bit_offset) # Zero(BITS)

\* C2: a resolved pair has 0 <= bit offset < BITS, and for the bit indices
\* b of the first WordsCovered words, word index * BITS + bit offset = b.
C2_RoundTrip ==
    bit_index # None =>
      /\ FitsNat(Get(bit_offset), BITS)
      /\ ToNat(Get(bit_offset), BITS) >= 0
      /\ ToNat(Get(bit_offset), BITS) < BITS
      /\ FitsNat(Get(bit_index), BITS) =>
           /\ FitsNat(Get(word_index), BITS)
           /\ ToNat(Get(word_index), BITS) * BITS + ToNat(Get(bit_offset), BITS)
                = ToNat(Get(bit_index), BITS)

\* bit index 130 of 64-bit words is bit 2 of word 2
C2_Witness ==
    /\ BITS = 64
    /\ bit_index = Some(FromNat(130, 64))
    /\ word_index = Some(FromNat(2, 64))
    /\ bit_offset = Some(FromNat(2, 64))

\* C3: the BITSHIFTS_NEEDED of bitshifts.rs is log2(BITS): 3 for 8, 4 for 16,
\* 5 for 32, 6 for 64, 7 for 128, so 2^BITSHIFTS_NEEDED = BITS.
C3_NativeTableIsLog2 ==
    pc = "ready" =>
      /\ Pow2(Get(bitshifts_needed)) = BITS
      /\ <<BITS, Get(bitshifts_needed)>>
           \in {<<8, 3>>, <<16, 4>>, <<32, 5>>, <<64, 6>>, <<128, 7>>}

\* the 128-bit target is built with a shift of 7
C3_Witness == pc = "ready" /\ BITS = 128 /\ bitshifts_needed = Some(7)

\* C4: REMAINDER_MASK, usize::MAX shifted left and back right by
\* BITS - BITSHIFTS_NEEDED, is BITS - 1: its low BITSHIFTS_NEEDED bits are
\* set and every higher bit is zero.
C4_MaskIsWidthMinusOne ==
    pc = "ready" =>
      /\ Get(remainder_mask) = FromNat(BITS - 1, BITS)
      /\ \A j \in 0 .. BITS - 1 :
           BitOf(Get(remainder_mask), j) = IF j < Get(bitshifts_needed) THEN 1 ELSE 0

\* the 128-bit mask is 127 in its lowest byte and zero above
C4_Witness ==
    /\ pc = "ready"
    /\ BITS = 128
    /\ Get(remainder_mask)[0] = 127
    /\ \A i \in 1 .. 15 : Get(remainder_mask)[i] = 0

\* C5: for a width no arm names, both tables panic, the build ends in the
\* panic, no shift or mask is ever derived and no address is ever resolved.
C5_UnsupportedWidthPanics ==
    BITS \notin SupportedBits =>
      /\ BITSHIFTS_NEEDED(BITS) = None
      /\ hashes_BITSHIFTS_NEEDED(BITS) = None
      /\ ConstEvalPanics(BITS)
      /\ pc \in {"compile", "panic"}
      /\ bitshifts_needed = None
      /\ remainder_mask = None
      /\ hashes_bitshifts_needed = None
      /\ bit_index = None /\ word_index = None /\ bit_offset = None
      /\ \A t \in TestNames : tests[t].pc = "idle"

\* the build for a 17-bit usize has panicked
C5_Witness == BITS = 17 /\ pc = "panic"

\* C6: the BITSHIFTS_NEEDED of hashes.rs satisfies 2^BITSHIFTS_NEEDED = BITS
\* on every supported target.
C6_HashesTableIsLog2 ==
    pc = "ready" => Pow2(Get(hashes_bitshifts_needed)) = BITS

\* C7: when b + BITS does not overflow, b + BITS resolves to the next word
\* and the same bit offset; when b + 1 does not overflow, b + 1 resolves to
\* the next bit of the same word, or to bit 0 of the next word after the last
\* bit: the word index never decreases and skips no value.
C7_NextWord ==
    bit_index # None =>
      LET b == Get(bit_index)
          shift == Get(bitshifts_needed)
          mask == Get(remainder_mask)
          width == FromNat(BITS, BITS)
          next_word == wrapping_add(Get(word_index), One(BITS), BITS)
          next_bit == wrapping_add(Get(bit_offset), One(BITS), BITS)
          last_bit == FromNat(BITS - 1, BITS)
      IN  /\ ~AddOverflows(b, width, BITS) =>
                resolve(wrapping_add(b, width, BITS), shift, mask, BITS)
                  = [word_index |-> next_word, bit_offset |-> Get(bit_offset)]
          /\ ~AddOverflows(b, One(BITS), BITS) =>
                resolve(wrapping_add(b, One(BITS), BITS), shift, mask, BITS)
                  = IF Get(bit_offset) = last_bit
                    THEN [word_index |-> next_word, bit_offset |-> Zero(BITS)]
                    ELSE [word_index |-> Get(word_index), bit_offset |-> next_bit]

\* the last bit of a word whose index carries into the next byte is resolved
C7_Witness ==
    /\ BITS = 32
    /\ bit_index # None
    /\ ~AddOverflows(Get(bit_index), FromNat(BITS, BITS), BITS)
    /\ Get(bit_offset) = FromNat(BITS - 1, BITS)
    /\ Get(bit_index)[0] = 255
    /\ Get(bit_index)[3] >= 192

\* C8: once the build is done no step of any thread changes a constant, and
\* every finished call of a caller holds the pair its bit index resolves to
\* with the constants as they were derived, whatever ran in between.
C8_ReadOnlyConstants ==
    /\ [][pc = "ready" => consts' = consts]_vars
    /\ [](\A c \in Callers :
            LET r == resolve(Get(callers[c].bit_index),
                             Get(BITSHIFTS_NEEDED(BITS)),
                             REMAINDER_MASK(BITS, Get(BITSHIFTS_NEEDED(BITS))), BITS)
            IN  /\ callers[c].pc \in {"shifted", "done"} =>
                     callers[c].word_index = Some(r.word_index)
                /\ callers[c].pc = "done" =>
                     callers[c].bit_offset = Some(r.bit_offset))

\* two calls and test_sample are under way at once
C8_Witness ==
    /\ callers[1].pc = "shifted"
    /\ callers[2].pc = "done"
    /\ callers[1].bit_index # callers[2].bit_index
    /\ tests["test_sample"].pc = "done"

\* C9: for every table index k and every number x of a running test,
\* x & bitmasks[k] = x % modulos[k] and x >> bitshifters[k] = x / divisors[k],
\* and a test prints the a its first loop left.
C9_TablesAgree ==
    /\ \A k \in TableIndex :
         /\ modulos[k] = Pow2(k) /\ divisors[k] = Pow2(k) /\ bitshifters[k] = k
         /\ \A x \in NumbersOf("test_bitmask_vs_modulo") :
              FirstTerm("test_bitmask_vs_modulo", x, k, BITS, None)
                = SecondTerm("test_bitmask_vs_modulo", x, k, BITS)
         /\ \A x \in NumbersOf("test_bitshifts_vs_divisions") :
              FirstTerm("test_bitshifts_vs_divisions", x, k, BITS, None)
                = SecondTerm("test_bitshifts_vs_divisions", x, k, BITS)
    /\ \A t \in {"test_bitmask_vs_modulo", "test_bitshifts_vs_divisions"} :
         tests[t].pc = "done" => tests[t].a = tests[t].a_mid /\ tests[t].out = <<tests[t].a>>

\* test_bitmask_vs_modulo has printed a non-zero sum of 64-bit numbers
C9_Witness ==
    /\ BITS = 64
    /\ tests["test_bitmask_vs_modulo"].pc = "done"
    /\ tests["test_bitmask_vs_modulo"].a # Zero(BITS)
    /\ tests["test_bitmask_vs_modulo"].numbers[0] # tests["test_bitmask_vs_modulo"].numbers[1]

\* C10: on a supported target no shift of the mask derivation overflows:
\* 0 < BITS - BITSHIFTS_NEEDED < BITS, and 0 < BITS - k < BITS for the
\* entries k = 1..6 of bitmasks, entry 0 being a literal; neither the build nor
\* a test panics.
C10_NoShiftOverflow ==
    BITS \in SupportedBits =>
      /\ pc # "panic"
      /\ \A t \in TestNames : tests[t].pc # "panicked"
      /\ pc = "ready" =>
           /\ MaskShiftAmount(BITS, Get(bitshifts_needed)) > 0
           /\ MaskShiftAmount(BITS, Get(bitshifts_needed)) < BITS
      /\ tests["test_bitmask_vs_modulo"].pc # "idle" =>
           /\ FormulaEntries = 1 .. 6
           /\ \A k \in FormulaEntries :
                MaskShiftAmount(BITS, k) > 0 /\ MaskShiftAmount(BITS, k) < BITS

\* the tables of test_bitmask_vs_modulo are built for an 8-bit usize, where
\* the shift amounts go down to 2
C10_Witness ==
    /\ BITS = 8
    /\ pc = "ready"
    /\ tests["test_bitmask_vs_modulo"].pc = "loop1"
    /\ MaskShiftAmount(BITS, 6) = 2

====
